---- MODULE Spec2Model ----
(***************************************************************************)
(* Pizza-Calculator-2.0: the recipe object (src/recipe), the Neapolitan    *)
(* calculator (src/calculators), the yeast-table extractor (src/data) and  *)
(* the recipe manager's save and load (src/manager), and the form's        *)
(* callbacks on the proofing inputs (src/ui).                              *)
(*                                                                         *)
(* Units.  Python floats are modelled as integers in a fixed unit:         *)
(*   temperatures            tenths of a degree   (4.0 C  -> 40)           *)
(*   percentages of inputs   tenths of a percent  (2.5 %  -> 25)           *)
(*   durations               half hours           (1.5 h  -> 3)            *)
(*   yeast percentages       thousandths of a percent                      *)
(*   flour weight            an exact fraction <<numerator, denominator>>  *)
(* A CSV cell is a string in the code; here it is a record that says       *)
(* whether the string is empty, numeric (with its value) or other text.    *)
(* Rows and columns are 0-based as in the code; the sequences that hold    *)
(* them are 1-based, hence the "+ 1" in every access.                      *)
(***************************************************************************)
EXTENDS Integers, Sequences, FiniteSets, TLC

VARIABLES csv_data, configuration, temperature_value_range, initialized, recipe, last, probe,
          dpg

vars ==
    <<csv_data, configuration, temperature_value_range, initialized, recipe, last, probe, dpg>>

(***************************************************************************)
(* Cells and Python values                                                 *)
(***************************************************************************)
Num(v) == [kind |-> "num", val |-> v]
Blank == [kind |-> "empty", val |-> 0]
Text == [kind |-> "text", val |-> 0]

\* A call's outcome: it returns a value or raises.
Ok(v) == [raised |-> "none", value |-> v]
Raise(e) == [raised |-> e, value |-> 0]

\* A local variable: x is evaluated once and F applied to its value.
With(x, F(_)) == CHOOSE y \in {F(v) : v \in {x}} : TRUE

\* Sequencing of calls: an exception of the first propagates, otherwise the
\* rest runs on the value it returned.
Then(r, F(_)) == With(r, LAMBDA v : IF v.raised # "none" THEN v ELSE F(v.value))

Abs(x) == IF x < 0 THEN -x ELSE x

\* range(a, b) as a sequence
PyRange(a, b) == [k \in 1..(IF b > a THEN b - a ELSE 0) |-> a + k - 1]

\* bool(cell.strip())
NonBlank(cell) == cell.kind # "empty"

\* float(cell): the number a numeric string denotes, ValueError otherwise
PyFloat(cell) == IF cell.kind = "num" THEN Ok(cell.val) ELSE Raise("ValueError")

\* Python values of different types are never equal: a str is not a float.
Str(v) == [type |-> "str", v |-> v]
Flt(v) == [type |-> "float", v |-> v]
PyEq(a, b) == a.type = b.type /\ a.v = b.v
PyIn(x, seq) == \E k \in 1..Len(seq) : PyEq(x, Flt(seq[k]))

\* f"{temperature:.1f}": the one-decimal text of a temperature given in tenths
format_1f(temperature) == Str(temperature)

\* list.index(x): 0-based position of the first element equal to x
PyIndex(seq, x) ==
    IF \E k \in 1..Len(seq) : seq[k] = x
    THEN Ok((CHOOSE k \in 1..Len(seq) : seq[k] = x /\ \A j \in 1..(k - 1) : seq[j] # x) - 1)
    ELSE Raise("ValueError")

\* A minimum that keeps the last of the elements with the least key.
PyMinByDistanceLast(seq, target) ==
    IF Len(seq) = 0 THEN Raise("ValueError")
    ELSE LET k == CHOOSE k \in 1..Len(seq) :
                    /\ \A j \in 1..Len(seq) : Abs(seq[k] - target) <= Abs(seq[j] - target)
                    /\ \A j \in (k + 1)..Len(seq) : Abs(seq[j] - target) > Abs(seq[k] - target)
         IN Ok(seq[k])

\* min(seq, key=lambda x: abs(x - target)): the first element with the least key
PyMinByDistance(seq, target) ==
    IF Len(seq) = 0 THEN Raise("ValueError")
    ELSE LET k == CHOOSE k \in 1..Len(seq) :
                    /\ \A j \in 1..Len(seq) : Abs(seq[k] - target) <= Abs(seq[j] - target)
                    /\ \A j \in 1..(k - 1) : Abs(seq[j] - target) > Abs(seq[k] - target)
         IN Ok(seq[k])

(***************************************************************************)
(* The yeast table and Configuration                                       *)
(***************************************************************************)
\* Durations fall along the columns (more yeast, less time); the warm row
\* starts one column late and the cold row ends one column early.
TableFalling ==
    << <<Text,     Num(10), Num(20), Num(40), Num(80)>>,
       <<Text,     Num(8),  Num(16), Num(32), Num(64)>>,
       <<Num(40),  Num(24), Num(12), Num(6),  Blank>>,
       <<Num(200), Blank,   Num(8),  Num(4),  Num(2)>> >>

\* Durations rise along the columns; the warm row is one cell short and the
\* cold row runs one cell past the configured duration columns.
TableRising ==
    << <<Text,     Num(80), Num(40), Num(20), Num(10)>>,
       <<Text,     Num(64), Num(32), Num(16), Num(8)>>,
       <<Num(40),  Num(6),  Num(12), Num(24), Num(48), Num(96)>>,
       <<Num(200), Num(2),  Num(4),  Num(8)>> >>

Tables == {TableFalling, TableRising}

\* neapolitan_config.json: "yeast_table_parameters"
YeastTableParameters ==
    [yeast_types |-> <<"ADY", "IDY">>,
     temperature_column |-> 0,
     first_duration_column |-> 1,
     last_duration_column |-> 5,
     lower_range_temperature_row |-> 2,
     upper_range_temperature_row |-> 4]

get_yeast_types == configuration.yeast_types
get_temperature_column == configuration.temperature_column
get_duration_column_range ==
    <<configuration.first_duration_column, configuration.last_duration_column>>
get_selective_temperature_row_range ==
    <<configuration.lower_range_temperature_row, configuration.upper_range_temperature_row>>

(***************************************************************************)
(* DataExtractor                                                           *)
(***************************************************************************)
\* self._csv_data[row][column]
get_cell_value(row, column) ==
    IF row >= Len(csv_data) THEN Raise("IndexError")
    ELSE IF column >= Len(csv_data[row + 1]) THEN Raise("IndexError")
    ELSE Ok(csv_data[row + 1][column + 1])

\* The temperatures in the configured row range; __init__ caches the list.
get_temperature_value_range ==
    LET column_index == get_temperature_column
    IN With(SelectSeq(
                PyRange(get_selective_temperature_row_range[1],
                        get_selective_temperature_row_range[2]),
                LAMBDA i : /\ i < Len(csv_data)
                           /\ column_index < Len(csv_data[i + 1])
                           /\ NonBlank(csv_data[i + 1][column_index + 1])),
            LAMBDA rows : [k \in 1..Len(rows) |-> csv_data[rows[k] + 1][column_index + 1].val])

\* A collection that takes the column named last as well.
get_duration_value_range_through_last(row_index) ==
    IF row_index >= Len(csv_data) THEN Ok(<<>>)
    ELSE LET row == csv_data[row_index + 1]
         IN With(SelectSeq(
                     PyRange(get_duration_column_range[1], get_duration_column_range[2] + 1),
                     LAMBDA i : i < Len(row) /\ NonBlank(row[i + 1])),
                 LAMBDA cols :
                     IF \E k \in 1..Len(cols) : row[cols[k] + 1].kind # "num"
                     THEN Raise("ValueError")
                     ELSE Ok([k \in 1..Len(cols) |-> row[cols[k] + 1].val]))

\* The non-empty cells of a row within range(first, last), as floats.
get_duration_value_range(row_index) ==
    IF row_index >= Len(csv_data) THEN Ok(<<>>)
    ELSE LET row == csv_data[row_index + 1]
         IN With(SelectSeq(
                     PyRange(get_duration_column_range[1], get_duration_column_range[2]),
                     LAMBDA i : i < Len(row) /\ NonBlank(row[i + 1])),
                 LAMBDA cols :
                     IF \E k \in 1..Len(cols) : row[cols[k] + 1].kind # "num"
                     THEN Raise("ValueError")
                     ELSE Ok([k \in 1..Len(cols) |-> row[cols[k] + 1].val]))

get_temperature_row_index(temperature, strict) ==
    LET temperature_str == format_1f(temperature)
        local_index ==
            IF PyIn(temperature_str, temperature_value_range)
            THEN PyIndex(temperature_value_range, temperature)
            ELSE IF ~strict
            THEN Then(PyMinByDistance(temperature_value_range, temperature),
                      LAMBDA closest_temp : PyIndex(temperature_value_range, closest_temp))
            ELSE Raise("TemperatureNotFound")
    IN Then(local_index,
            LAMBDA found : Ok(get_selective_temperature_row_range[1] + found))

\* A scan that starts at the first column of the row whatever start_col is.
_get_null_offset_from_first_column(row_index, start_col) ==
    IF row_index >= Len(csv_data) THEN Raise("IndexOutOfBounds")
    ELSE LET row == csv_data[row_index + 1]
         IN With({i \in 0..(Len(row) - 1) : NonBlank(row[i + 1])},
                 LAMBDA filled :
                     IF filled = {} THEN Ok(0)
                     ELSE Ok(CHOOSE i \in filled : \A j \in filled : i <= j))

\* First non-empty column of the row at or after start_col, 0 when there is none.
_get_null_offset(row_index, start_col) ==
    IF row_index >= Len(csv_data) THEN Raise("IndexOutOfBounds")
    ELSE LET row == csv_data[row_index + 1]
         IN With({i \in start_col..(Len(row) - 1) : NonBlank(row[i + 1])},
                 LAMBDA filled :
                     IF filled = {} THEN Ok(0)
                     ELSE Ok(CHOOSE i \in filled : \A j \in filled : i <= j))

\* A search that returns the position in the list without the row's offset.
_find_closest_duration_column_without_offset(row, duration, duration_range) ==
    IF Len(duration_range) = 0 THEN Raise("ValueError")
    ELSE With(CHOOSE d \in {Abs(duration_range[k] - duration) : k \in 1..Len(duration_range)} :
                  \A k \in 1..Len(duration_range) : d <= Abs(duration_range[k] - duration),
              LAMBDA closest_diff :
                  With({k \in 1..Len(duration_range) :
                            Abs(duration_range[k] - duration) = closest_diff},
                       LAMBDA tied :
                           Ok((CHOOSE k \in tied : \A j \in tied : j <= k) - 1)))

\* A search that takes the first of the tied durations ([0] for [-1]).
_find_closest_duration_column_first_tied(row, duration, duration_range) ==
    IF Len(duration_range) = 0 THEN Raise("ValueError")
    ELSE With(CHOOSE d \in {Abs(duration_range[k] - duration) : k \in 1..Len(duration_range)} :
                  \A k \in 1..Len(duration_range) : d <= Abs(duration_range[k] - duration),
              LAMBDA closest_diff :
                  With({k \in 1..Len(duration_range) :
                            Abs(duration_range[k] - duration) = closest_diff},
                       LAMBDA tied :
                           LET closest_relative_index ==
                                   (CHOOSE k \in tied : \A j \in tied : k <= j) - 1
                           IN Then(_get_null_offset(row, get_duration_column_range[1]),
                                   LAMBDA offset_column :
                                       Ok(closest_relative_index + offset_column))))

_find_closest_duration_column(row, duration, duration_range) ==
    IF Len(duration_range) = 0 THEN Raise("ValueError")
    ELSE With(CHOOSE d \in {Abs(duration_range[k] - duration) : k \in 1..Len(duration_range)} :
                  \A k \in 1..Len(duration_range) : d <= Abs(duration_range[k] - duration),
              LAMBDA closest_diff :
                  With({k \in 1..Len(duration_range) :
                            Abs(duration_range[k] - duration) = closest_diff},
                       LAMBDA tied :
                           LET closest_relative_index ==
                                   (CHOOSE k \in tied : \A j \in tied : j <= k) - 1
                           IN Then(_get_null_offset(row, get_duration_column_range[1]),
                                   LAMBDA offset_column :
                                       Ok(closest_relative_index + offset_column))))

get_closest_duration_column(duration, temperature) ==
    Then(get_temperature_row_index(temperature, FALSE),
         LAMBDA temperature_row_index :
             Then(get_duration_value_range(temperature_row_index),
                  LAMBDA duration_values :
                      _find_closest_duration_column(
                          temperature_row_index, duration, duration_values)))

\* An index that counts the yeast types from 1.
get_yeast_type_index_from_one(yeast_type) ==
    With(PyIndex(get_yeast_types, yeast_type),
         LAMBDA found : IF found.raised # "none" THEN Raise("UnknownYeastType")
                        ELSE Ok(found.value + 1))

\* The error carries the arguments of its message: the name and the list.
get_yeast_type_index(yeast_type) ==
    With(PyIndex(get_yeast_types, yeast_type),
         LAMBDA found :
             IF found.raised # "none"
             THEN [raised |-> "UnknownYeastType", value |-> <<yeast_type, get_yeast_types>>]
             ELSE found)

get_yeast_percentage(yeast_type, duration_column) ==
    Then(get_yeast_type_index(yeast_type),
         LAMBDA yeast_type_row :
             Then(get_cell_value(yeast_type_row, duration_column),
                  LAMBDA cell : PyFloat(cell)))

(***************************************************************************)
(* PizzaCalculator / NeapolitanCalculator                                  *)
(***************************************************************************)
RECURSIVE Gcd(_, _)
Gcd(a, b) == IF b = 0 THEN a ELSE Gcd(b, a % b)

\* An exact fraction in lowest terms, standing for the float the code computes.
Fraction(n, d) == With(Gcd(n, d), LAMBDA g : <<n \div g, d \div g>>)

\* A division by the percentages alone, without the flour's own 100 %.
calculate_flour_weight_without_one(self) ==
    LET total_percentage == self.hydration + self.oil_percentage + self.salt_percentage
    IN IF total_percentage = 0 THEN Raise("ZeroDivisionError")
       ELSE Ok(Fraction(self.number_of_balls * self.ball_weight * 1000, total_percentage))

\* (number_of_balls * ball_weight) / (1 + (hydration + oil + salt) / 100),
\* the percentages being in tenths: the quotient is balls * weight * 1000 / (1000 + sum).
calculate_flour_weight(self) ==
    LET total_percentage == 1000 + (self.hydration + self.oil_percentage + self.salt_percentage)
    IN IF total_percentage = 0 THEN Raise("ZeroDivisionError")
       ELSE Ok(Fraction(self.number_of_balls * self.ball_weight * 1000, total_percentage))

\* A validation that tests for the missing temperatures first.
_validate_missing_temperatures_first(self) ==
    IF self.room_temperature = 0 /\ self.fridge_temperature = 0
    THEN "MissingTemperatures"
    ELSE IF self.room_temperature = 0 /\ self.room_fermentation # 0
    THEN "MismatchFermentation(Room)"
    ELSE IF self.fridge_temperature = 0 /\ self.fridge_fermentation # 0
    THEN "MismatchFermentation(Fridge)"
    ELSE "none"

\* A validation whose last test reads "or" where the code reads "and".
_validate_either_temperature_missing(self) ==
    IF self.room_temperature = 0 /\ self.room_fermentation # 0
    THEN "MismatchFermentation(Room)"
    ELSE IF self.fridge_temperature = 0 /\ self.fridge_fermentation # 0
    THEN "MismatchFermentation(Fridge)"
    ELSE IF self.room_temperature = 0 \/ self.fridge_temperature = 0
    THEN "MissingTemperatures"
    ELSE "none"

_validate_fermentation_conditions(self) ==
    IF self.room_temperature = 0 /\ self.room_fermentation # 0
    THEN "MismatchFermentation(Room)"
    ELSE IF self.fridge_temperature = 0 /\ self.fridge_fermentation # 0
    THEN "MismatchFermentation(Fridge)"
    ELSE IF self.room_temperature = 0 /\ self.fridge_temperature = 0
    THEN "MissingTemperatures"
    ELSE "none"

\* What a lookup of the calculator yields: the column (or the error) and the
\* temperatures it resolved to table rows, in call order.
Looked(result, lookups) ==
    With(result, LAMBDA r : [raised |-> r.raised, value |-> r.value, lookups |-> lookups])

\* A conversion without the try/except: float's own ValueError escapes.
FloatOrValueError(cell) == PyFloat(cell)

\* float(cell) inside try/except ValueError: raise ValueError(INVALID_FERMENTATION)
FloatOrInvalidFermentation(cell) ==
    IF PyFloat(cell).raised # "none" THEN Raise("InvalidFermentation") ELSE PyFloat(cell)

\* A combination that forgets to add the fridge duration.
_get_combined_duration_without_fridge_hours(self) ==
    With(get_closest_duration_column(self.room_fermentation, self.room_temperature),
         LAMBDA room_duration_column :
    IF room_duration_column.raised # "none"
    THEN Looked(room_duration_column, <<self.room_temperature>>)
    ELSE With(get_temperature_row_index(self.fridge_temperature, FALSE),
              LAMBDA temperature_row_index :
    IF temperature_row_index.raised # "none"
    THEN Looked(temperature_row_index, <<self.room_temperature, self.fridge_temperature>>)
    ELSE With(Then(get_cell_value(temperature_row_index.value, room_duration_column.value),
                   LAMBDA cell : FloatOrInvalidFermentation(cell)),
              LAMBDA room_fermentation_value_at_fridge :
    IF room_fermentation_value_at_fridge.raised # "none"
    THEN Looked(room_fermentation_value_at_fridge,
                <<self.room_temperature, self.fridge_temperature>>)
    ELSE Looked(get_closest_duration_column(
                    room_fermentation_value_at_fridge.value, self.fridge_temperature),
                <<self.room_temperature, self.fridge_temperature,
                  self.fridge_temperature>>))))

_get_combined_duration(self) ==
    With(get_closest_duration_column(self.room_fermentation, self.room_temperature),
         LAMBDA room_duration_column :
    IF room_duration_column.raised # "none"
    THEN Looked(room_duration_column, <<self.room_temperature>>)
    ELSE With(get_temperature_row_index(self.fridge_temperature, FALSE),
              LAMBDA temperature_row_index :
    IF temperature_row_index.raised # "none"
    THEN Looked(temperature_row_index, <<self.room_temperature, self.fridge_temperature>>)
    ELSE With(Then(get_cell_value(temperature_row_index.value, room_duration_column.value),
                   LAMBDA cell : FloatOrInvalidFermentation(cell)),
              LAMBDA room_fermentation_value_at_fridge :
    IF room_fermentation_value_at_fridge.raised # "none"
    THEN Looked(room_fermentation_value_at_fridge,
                <<self.room_temperature, self.fridge_temperature>>)
    ELSE LET combined_fermentation_duration ==
                 room_fermentation_value_at_fridge.value + self.fridge_fermentation
         IN Looked(get_closest_duration_column(
                       combined_fermentation_duration, self.fridge_temperature),
                   <<self.room_temperature, self.fridge_temperature,
                     self.fridge_temperature>>))))

\* The outcome of a yeast recompute: the error or the percentage, the duration
\* column it read (-1 when it chose none) and the temperatures it looked up.
Computed(raised, value, column, lookups) ==
    [raised |-> raised, value |-> value, column |-> column, lookups |-> lookups]

\* A dispatch that tests fridge_fermentation before room_fermentation.
calculate_yeast_percentage_fridge_test_first(self) ==
    With(_validate_fermentation_conditions(self), LAMBDA invalid :
    IF invalid # "none" THEN Computed(invalid, 0, -1, <<>>)
    ELSE With(IF self.fridge_fermentation = 0
              THEN Looked(get_closest_duration_column(
                              self.room_fermentation, self.room_temperature),
                          <<self.room_temperature>>)
              ELSE IF self.room_fermentation = 0
              THEN Looked(get_closest_duration_column(
                              self.fridge_fermentation, self.fridge_temperature),
                          <<self.fridge_temperature>>)
              ELSE _get_combined_duration(self),
              LAMBDA duration_column :
    IF duration_column.raised # "none"
    THEN Computed(duration_column.raised, 0, -1, duration_column.lookups)
    ELSE With(get_yeast_percentage(self.yeast_type, duration_column.value),
              LAMBDA percentage :
                  Computed(percentage.raised, percentage.value, duration_column.value,
                           duration_column.lookups))))

calculate_yeast_percentage(self) ==
    With(_validate_fermentation_conditions(self), LAMBDA invalid :
    IF invalid # "none" THEN Computed(invalid, 0, -1, <<>>)
    ELSE With(IF self.room_fermentation = 0
              THEN Looked(get_closest_duration_column(
                              self.fridge_fermentation, self.fridge_temperature),
                          <<self.fridge_temperature>>)
              ELSE IF self.fridge_fermentation = 0
              THEN Looked(get_closest_duration_column(
                              self.room_fermentation, self.room_temperature),
                          <<self.room_temperature>>)
              ELSE _get_combined_duration(self),
              LAMBDA duration_column :
    IF duration_column.raised # "none"
    THEN Computed(duration_column.raised, 0, -1, duration_column.lookups)
    ELSE With(get_yeast_percentage(self.yeast_type, duration_column.value),
              LAMBDA percentage :
                  Computed(percentage.raised, percentage.value, duration_column.value,
                           duration_column.lookups))))

(***************************************************************************)
(* PizzaRecipe                                                             *)
(***************************************************************************)
\* What a call on the recipe leaves behind: the object, the error it raised
\* ("none" when it returned), which recalculation ran, and that run's trace.
Called(self, raised, recalculated, column, lookups) ==
    [recipe |-> self, raised |-> raised, recalculated |-> recalculated,
     column |-> column, lookups |-> lookups]

recalculate_flour_weight(self) ==
    With(calculate_flour_weight(self), LAMBDA weight :
        IF weight.raised # "none"
        THEN Called(self, weight.raised, "flour", -1, <<>>)
        ELSE Called([self EXCEPT !.flour_weight = weight.value], "none", "flour", -1, <<>>))

\* A recalculation that stores a fallback of 0 when the calculator raises.
recalculate_yeast_percentage_with_fallback(self) ==
    With(calculate_yeast_percentage(self), LAMBDA percentage :
        IF percentage.raised # "none"
        THEN Called([self EXCEPT !.yeast_percentage = 0],
                    percentage.raised, "yeast", percentage.column, percentage.lookups)
        ELSE Called([self EXCEPT !.yeast_percentage = percentage.value],
                    "none", "yeast", percentage.column, percentage.lookups))

recalculate_yeast_percentage(self) ==
    With(calculate_yeast_percentage(self), LAMBDA percentage :
        IF percentage.raised # "none"
        THEN Called(self, percentage.raised, "yeast", percentage.column, percentage.lookups)
        ELSE Called([self EXCEPT !.yeast_percentage = percentage.value],
                    "none", "yeast", percentage.column, percentage.lookups))

\* A dispatch that runs the yeast recalculation whatever the property names.
recalculate_yeast_whatever_the_name(self, recalculate_function_name) ==
    recalculate_yeast_percentage(self)

\* getattr(self, recalculate_function_name)()
recalculate(self, recalculate_function_name) ==
    IF recalculate_function_name = "recalculate_flour_weight"
    THEN recalculate_flour_weight(self)
    ELSE recalculate_yeast_percentage(self)

\* A setter that lacks the "value != current" test.
setter_without_test(self, attr, value, recalculate_function_name) ==
    recalculate([self EXCEPT ![attr] = value], recalculate_function_name)

\* auto_property(attr, recalculate_function_name).setter
setter(self, attr, value, recalculate_function_name) ==
    IF value # self[attr]
    THEN recalculate([self EXCEPT ![attr] = value], recalculate_function_name)
    ELSE Called(self, "none", "none", -1, <<>>)

\* PizzaRecipe(calculator, base_recipe): the inputs, then both recalculations.
\* The derived fields are None until computed; a raise leaves no object.
NoneValue == <<>>

__init__(base_recipe) ==
    LET fresh == [a \in DOMAIN base_recipe \cup {"flour_weight", "yeast_percentage"} |->
                     IF a \in DOMAIN base_recipe THEN base_recipe[a] ELSE NoneValue]
    IN With(recalculate_flour_weight(fresh), LAMBDA floured :
           IF floured.raised # "none" THEN floured
           ELSE recalculate_yeast_percentage(floured.recipe))

\* round(x) of a non-negative number n / d: to the nearest integer, a half to
\* the even one.
PyRound(n, d) ==
    LET floor == n \div d
        twice == 2 * (n % d)
    IN IF twice < d THEN floor
       ELSE IF twice > d THEN floor + 1
       ELSE IF floor % 2 = 0 THEN floor ELSE floor + 1

\* A percentage taken of the whole dough instead of the flour.
_calculate_ingredient_weight_of_dough(self, percentage, scale) ==
    Fraction(self.number_of_balls * self.ball_weight * percentage, 100 * scale)

\* _calculate_ingredient_weight: flour_weight * percentage / 100, as an exact
\* fraction; scale is the unit of the percentage (10 for tenths of a percent,
\* 1000 for thousandths).
_calculate_ingredient_weight(self, percentage, scale) ==
    Fraction(self.flour_weight[1] * percentage, self.flour_weight[2] * 100 * scale)

calculate_water_weight(self) == _calculate_ingredient_weight(self, self.hydration, 10)
calculate_oil_weight(self) == _calculate_ingredient_weight(self, self.oil_percentage, 10)
calculate_salt_weight(self) == _calculate_ingredient_weight(self, self.salt_percentage, 10)
calculate_yeast_weight(self) == _calculate_ingredient_weight(self, self.yeast_percentage, 1000)

\* f"{weight:.3f}".rstrip("0").rstrip("."), ".0" appended when no "." is left:
\* the whole grams and the decimals that remain, at least one.
_format_yeast(self) ==
    LET weight == _calculate_ingredient_weight(self, self.yeast_percentage, 1000)
        thousandths == PyRound(weight[1] * 1000, weight[2])
        decimals == thousandths % 1000
    IN [whole |-> thousandths \div 1000,
        decimals |-> IF decimals % 100 = 0 THEN <<decimals \div 100>>
                     ELSE IF decimals % 10 = 0
                     THEN <<decimals \div 100, (decimals \div 10) % 10>>
                     ELSE <<decimals \div 100, (decimals \div 10) % 10, decimals % 10>>]

Grams(label, weight) == [label |-> label, grams |-> PyRound(weight[1], weight[2])]

\* round(hours) of a duration in half hours, f"{temperature:.1f}" of a temperature
Proof(label, fermentation, temperature) ==
    [label |-> label, hours |-> PyRound(fermentation, 2), temperature |-> format_1f(temperature)]

\* A text that tests "or" where the code tests "and".
__str___with_either_field(self) ==
    <<Grams("Flour", self.flour_weight),
      Grams("Water", _calculate_ingredient_weight(self, self.hydration, 10)),
      Grams("Salt", _calculate_ingredient_weight(self, self.salt_percentage, 10)),
      Grams("Oil", _calculate_ingredient_weight(self, self.oil_percentage, 10)),
      [label |-> "Yeast", weight |-> _format_yeast(self), of |-> self.yeast_type]>>
    \o (IF self.fridge_fermentation # 0 \/ self.fridge_temperature # 0
        THEN <<Proof("Cold Proof", self.fridge_fermentation, self.fridge_temperature)>>
        ELSE <<>>)
    \o (IF self.room_fermentation # 0 \/ self.room_temperature # 0
        THEN <<Proof("Room Proof", self.room_fermentation, self.room_temperature)>>
        ELSE <<>>)
    \o <<[label |-> "Total", number_of_balls |-> self.number_of_balls,
          ball_weight |-> self.ball_weight]>>

\* str(recipe): the lines of the text, each with the values it shows.
__str__(self) ==
    <<Grams("Flour", self.flour_weight),
      Grams("Water", _calculate_ingredient_weight(self, self.hydration, 10)),
      Grams("Salt", _calculate_ingredient_weight(self, self.salt_percentage, 10)),
      Grams("Oil", _calculate_ingredient_weight(self, self.oil_percentage, 10)),
      [label |-> "Yeast", weight |-> _format_yeast(self), of |-> self.yeast_type]>>
    \o (IF self.fridge_fermentation # 0 /\ self.fridge_temperature # 0
        THEN <<Proof("Cold Proof", self.fridge_fermentation, self.fridge_temperature)>>
        ELSE <<>>)
    \o (IF self.room_fermentation # 0 /\ self.room_temperature # 0
        THEN <<Proof("Room Proof", self.room_fermentation, self.room_temperature)>>
        ELSE <<>>)
    \o <<[label |-> "Total", number_of_balls |-> self.number_of_balls,
          ball_weight |-> self.ball_weight]>>

(***************************************************************************)
(* The values the form and a recipe file can hold                          *)
(***************************************************************************)
MaxBalls == 2

SaltValues == {25, 30}
OilValues == {0, 20}
HydrationValues == {650, 700}
BallWeightValues == {250, 280}
BallCountValues == 1..MaxBalls
YeastTypeValues == {"ADY", "IDY", "Fresh"}
RoomTemperatureValues == {0, 200}
FridgeTemperatureValues == {0, 50}
FermentationValues == {0, 3}

BaseRecipes ==
    [salt_percentage : SaltValues, oil_percentage : OilValues, hydration : HydrationValues,
     ball_weight : BallWeightValues, number_of_balls : BallCountValues,
     yeast_type : YeastTypeValues,
     room_temperature : RoomTemperatureValues, fridge_temperature : FridgeTemperatureValues,
     room_fermentation : FermentationValues, fridge_fermentation : FermentationValues]

\* The record of the latest call on the recipe.
Trace(call) ==
    [raised |-> call.raised, recalculated |-> call.recalculated,
     column |-> call.column, lookups |-> call.lookups]

NoProbe == [called |-> "none"]
\* No DearPyGui item exists: the recipe is used without the form.
NoItems == <<>>
NoRecipe == [yeast_percentage |-> NoneValue, flour_weight |-> NoneValue]
NoTrace == [raised |-> "none", recalculated |-> "none", column |-> -1, lookups |-> <<>>]

\* DataExtractor.__init__: the table, the configuration and the cached temperatures.
LoadTable ==
    /\ csv_data \in Tables
    /\ configuration = YeastTableParameters
    /\ temperature_value_range = get_temperature_value_range
    /\ initialized = TRUE

\* A constructor without the _initialized test: every construction reads the
\* file again, whatever it holds by then.
DataExtractor_without_guard ==
    /\ csv_data' \in Tables
    /\ configuration' = YeastTableParameters
    /\ temperature_value_range' = get_temperature_value_range'
    /\ initialized' = TRUE

\* DataExtractor(): __new__ hands out the one instance and __init__ returns at
\* once when that instance is initialized; only a first construction loads.
DataExtractor ==
    IF initialized
    THEN UNCHANGED <<csv_data, configuration, temperature_value_range, initialized>>
    ELSE /\ csv_data' \in Tables
         /\ configuration' = YeastTableParameters
         /\ temperature_value_range' = get_temperature_value_range'
         /\ initialized' = TRUE

(***************************************************************************)
(* The recipe as a state machine: construction, then property assignments  *)
(***************************************************************************)
Init ==
    /\ LoadTable
    /\ \E base_recipe \in BaseRecipes :
           \E made \in {__init__(base_recipe)} :
              /\ made.raised = "none"
              /\ recipe = made.recipe
              /\ last = Trace(made)
    /\ probe = NoProbe
    /\ dpg = NoItems

\* recipe.<attr> = value.  A yeast recalculation constructs DataExtractor()
\* (neapolitan_calculator.py:33) before it reads the table.
Assign(attr, value, recalculate_function_name) ==
    \E call \in {setter(recipe, attr, value, recalculate_function_name)} :
       /\ recipe' = call.recipe
       /\ last' = Trace(call)
       /\ IF call.recalculated = "yeast"
          THEN DataExtractor
          ELSE UNCHANGED <<csv_data, configuration, temperature_value_range, initialized>>
       /\ UNCHANGED <<probe, dpg>>

salt_percentage ==
    \E value \in SaltValues : Assign("salt_percentage", value, "recalculate_flour_weight")
oil_percentage ==
    \E value \in OilValues : Assign("oil_percentage", value, "recalculate_flour_weight")
hydration ==
    \E value \in HydrationValues : Assign("hydration", value, "recalculate_flour_weight")
ball_weight ==
    \E value \in BallWeightValues : Assign("ball_weight", value, "recalculate_flour_weight")
number_of_balls ==
    \E value \in BallCountValues : Assign("number_of_balls", value, "recalculate_flour_weight")
yeast_type ==
    \E value \in YeastTypeValues : Assign("yeast_type", value, "recalculate_yeast_percentage")
room_temperature ==
    \E value \in RoomTemperatureValues :
        Assign("room_temperature", value, "recalculate_yeast_percentage")
fridge_temperature ==
    \E value \in FridgeTemperatureValues :
        Assign("fridge_temperature", value, "recalculate_yeast_percentage")
room_fermentation ==
    \E value \in FermentationValues :
        Assign("room_fermentation", value, "recalculate_yeast_percentage")
fridge_fermentation ==
    \E value \in FermentationValues :
        Assign("fridge_fermentation", value, "recalculate_yeast_percentage")

Next ==
    \/ salt_percentage
    \/ oil_percentage
    \/ hydration
    \/ ball_weight
    \/ number_of_balls
    \/ yeast_type
    \/ room_temperature
    \/ fridge_temperature
    \/ room_fermentation
    \/ fridge_fermentation

Spec == Init /\ [][Next]_vars

(***************************************************************************)
(* The ingredient side on its own: a recipe with a fixed cold proof, built *)
(* for any dough including the one of scenario D (65 % hydration, 2 % oil, *)
(* 2.5 % salt, 4 balls of 250 g), then changed by the five dough setters.  *)
(***************************************************************************)
ScenarioD ==
    [hydration |-> 650, oil_percentage |-> 20, salt_percentage |-> 25,
     ball_weight |-> 250, number_of_balls |-> 4]

FlourRecipes ==
    [salt_percentage : SaltValues, oil_percentage : OilValues, hydration : HydrationValues,
     ball_weight : BallWeightValues,
     number_of_balls : BallCountValues \cup {ScenarioD.number_of_balls},
     yeast_type : {"ADY"},
     room_temperature : {0}, fridge_temperature : {50},
     room_fermentation : {0}, fridge_fermentation : {3}]

FlourInit ==
    /\ LoadTable
    /\ \E base_recipe \in FlourRecipes :
           \E made \in {__init__(base_recipe)} :
              /\ made.raised = "none"
              /\ recipe = made.recipe
              /\ last = Trace(made)
    /\ probe = NoProbe
    /\ dpg = NoItems

FlourNext ==
    \/ salt_percentage
    \/ oil_percentage
    \/ hydration
    \/ ball_weight
    \/ number_of_balls

FlourSpec == FlourInit /\ [][FlourNext]_vars

(***************************************************************************)
(* The calculator on its own: NeapolitanCalculator.calculate_yeast_        *)
(* percentage is a static, pure function of the recipe's five fermentation *)
(* inputs and the table.  It is applied to every combination of inputs.    *)
(***************************************************************************)
MaxFermentation == 8

ProbeTemperatures == {0, 40, 50, 120, 200}
ProbeFermentations == 0..MaxFermentation

ProbeRecipes ==
    [yeast_type : YeastTypeValues,
     room_temperature : ProbeTemperatures, fridge_temperature : ProbeTemperatures,
     room_fermentation : ProbeFermentations, fridge_fermentation : ProbeFermentations]

CalculatorInit ==
    /\ LoadTable
    /\ recipe = NoRecipe
    /\ last = NoTrace
    /\ \E self \in ProbeRecipes : probe = [called |-> "none", self |-> self]
    /\ dpg = NoItems

CalculateYeastPercentage ==
    /\ probe.called = "none"
    /\ probe' = [called |-> "calculate_yeast_percentage", self |-> probe.self,
                 result |-> calculate_yeast_percentage(probe.self)]
    /\ DataExtractor
    /\ UNCHANGED <<recipe, last, dpg>>

CalculatorNext == CalculateYeastPercentage

CalculatorSpec == CalculatorInit /\ [][CalculatorNext]_vars

(***************************************************************************)
(* RecipeManager: a constructed recipe is written as a recipe file's       *)
(* base_recipe and a recipe is built from what was written.                *)
(***************************************************************************)
\* int(x) of a duration in half hours: the whole hours, toward zero
PyInt(duration) == 2 * (duration \div 2)

\* The "base_recipe" of save_recipe_as_json's data
save_recipe_as_json(self) ==
    [pizza_style |-> "Neo-Neapolitan",
     salt_percentage |-> self.salt_percentage,
     oil_percentage |-> self.oil_percentage,
     yeast_type |-> self.yeast_type,
     hydration |-> self.hydration,
     ball_weight |-> self.ball_weight,
     number_of_balls |-> self.number_of_balls,
     room_temperature |-> self.room_temperature,
     room_fermentation |-> PyInt(self.room_fermentation),
     fridge_temperature |-> self.fridge_temperature,
     fridge_fermentation |-> PyInt(self.fridge_fermentation)]

\* get_pizza_calculator(pizza_style), then PizzaRecipe(calculator, base_recipe),
\* which reads the ten inputs of base_recipe.
to_recipe(base_recipe) ==
    IF base_recipe.pizza_style # "Neo-Neapolitan"
    THEN Called(NoRecipe, "NoCalculatorFound", "none", -1, <<>>)
    ELSE __init__([a \in DOMAIN base_recipe \ {"pizza_style"} |-> base_recipe[a]])

SavedRecipes ==
    [salt_percentage : {ScenarioD.salt_percentage},
     oil_percentage : {ScenarioD.oil_percentage},
     hydration : {ScenarioD.hydration},
     ball_weight : {ScenarioD.ball_weight},
     number_of_balls : {ScenarioD.number_of_balls},
     yeast_type : YeastTypeValues,
     room_temperature : RoomTemperatureValues, fridge_temperature : FridgeTemperatureValues,
     room_fermentation : ProbeFermentations, fridge_fermentation : ProbeFermentations]

ManagerInit ==
    /\ LoadTable
    /\ \E base_recipe \in SavedRecipes :
           \E made \in {__init__(base_recipe)} :
              /\ made.raised = "none"
              /\ recipe = made.recipe
              /\ last = Trace(made)
    /\ probe = NoProbe
    /\ dpg = NoItems

SaveRecipeAsJson ==
    /\ probe.called = "none"
    /\ probe' = [called |-> "save_recipe_as_json", data |-> save_recipe_as_json(recipe)]
    /\ UNCHANGED <<csv_data, configuration, temperature_value_range, initialized, recipe, last,
                   dpg>>

\* The loaded recipe is kept beside the one that was saved.
ToRecipe ==
    /\ probe.called = "save_recipe_as_json"
    /\ probe' = [called |-> "to_recipe", data |-> probe.data, result |-> to_recipe(probe.data)]
    /\ DataExtractor
    /\ UNCHANGED <<recipe, last, dpg>>

ManagerNext ==
    \/ SaveRecipeAsJson
    \/ ToRecipe

ManagerSpec == ManagerInit /\ [][ManagerNext]_vars

\* The text export: the recipe of scenario D's dough with any fermentation
\* inputs is changed by the yeast-affecting setters and then written as text.
ExportRecipes ==
    [salt_percentage : {ScenarioD.salt_percentage},
     oil_percentage : {ScenarioD.oil_percentage},
     hydration : {ScenarioD.hydration},
     ball_weight : {ScenarioD.ball_weight},
     number_of_balls : {ScenarioD.number_of_balls},
     yeast_type : YeastTypeValues,
     room_temperature : RoomTemperatureValues, fridge_temperature : FridgeTemperatureValues,
     room_fermentation : FermentationValues, fridge_fermentation : FermentationValues]

ExportInit ==
    /\ LoadTable
    /\ \E base_recipe \in ExportRecipes :
           \E made \in {__init__(base_recipe)} :
              /\ made.raised = "none"
              /\ recipe = made.recipe
              /\ last = Trace(made)
    /\ probe = NoProbe
    /\ dpg = NoItems

\* f.write(str(recipe))
SaveRecipeAsTxt ==
    /\ probe.called = "none"
    /\ probe' = [called |-> "save_recipe_as_txt", text |-> __str__(recipe)]
    /\ UNCHANGED <<csv_data, configuration, temperature_value_range, initialized, recipe, last,
                   dpg>>

ExportNext ==
    \/ probe.called = "none" /\ yeast_type
    \/ probe.called = "none" /\ room_temperature
    \/ probe.called = "none" /\ fridge_temperature
    \/ probe.called = "none" /\ room_fermentation
    \/ probe.called = "none" /\ fridge_fermentation
    \/ SaveRecipeAsTxt

ExportSpec == ExportInit /\ [][ExportNext]_vars

(***************************************************************************)
(* The extractor on its own: one call of a DataExtractor method, for every *)
(* method and every argument.                                              *)
(***************************************************************************)
MaxDuration == 13
MaxRow == 5
MaxColumn == 6

ProbeDurations == 0..MaxDuration
ProbeRows == 0..MaxRow
ProbeColumns == 0..MaxColumn

\* The calls to make: the method and its arguments.
ExtractorCalls ==
    {[called |-> "none", pending |-> "get_closest_duration_column",
      duration |-> duration, temperature |-> temperature] :
         duration \in ProbeDurations, temperature \in ProbeTemperatures}
    \cup {[called |-> "none", pending |-> "get_temperature_row_index",
           temperature |-> temperature, strict |-> strict] :
              temperature \in ProbeTemperatures, strict \in BOOLEAN}
    \cup {[called |-> "none", pending |-> "get_duration_value_range",
           row_index |-> row_index] : row_index \in ProbeRows}
    \cup {[called |-> "none", pending |-> "_get_null_offset",
           row_index |-> row_index, start_col |-> start_col] :
              row_index \in ProbeRows, start_col \in ProbeColumns}

ExtractorInit ==
    /\ LoadTable
    /\ recipe = NoRecipe
    /\ last = NoTrace
    /\ probe \in ExtractorCalls
    /\ dpg = NoItems

GetTemperatureRowIndex ==
    /\ probe.called = "none"
    /\ probe.pending = "get_temperature_row_index"
    /\ probe' = [called |-> "get_temperature_row_index",
                 temperature |-> probe.temperature, strict |-> probe.strict,
                 result |-> get_temperature_row_index(probe.temperature, probe.strict)]
    /\ UNCHANGED <<csv_data, configuration, temperature_value_range, initialized, recipe, last,
                   dpg>>

GetDurationValueRange ==
    /\ probe.called = "none"
    /\ probe.pending = "get_duration_value_range"
    /\ probe' = [called |-> "get_duration_value_range", row_index |-> probe.row_index,
                 result |-> get_duration_value_range(probe.row_index)]
    /\ UNCHANGED <<csv_data, configuration, temperature_value_range, initialized, recipe, last,
                   dpg>>

GetNullOffset ==
    /\ probe.called = "none"
    /\ probe.pending = "_get_null_offset"
    /\ probe' = [called |-> "_get_null_offset",
                 row_index |-> probe.row_index, start_col |-> probe.start_col,
                 result |-> _get_null_offset(probe.row_index, probe.start_col)]
    /\ UNCHANGED <<csv_data, configuration, temperature_value_range, initialized, recipe, last,
                   dpg>>

GetClosestDurationColumn ==
    /\ probe.called = "none"
    /\ probe.pending = "get_closest_duration_column"
    /\ probe' = [called |-> "get_closest_duration_column",
                 duration |-> probe.duration, temperature |-> probe.temperature,
                 result |-> get_closest_duration_column(probe.duration, probe.temperature)]
    /\ UNCHANGED <<csv_data, configuration, temperature_value_range, initialized, recipe, last,
                   dpg>>

ExtractorNext ==
    \/ GetClosestDurationColumn
    \/ GetTemperatureRowIndex
    \/ GetDurationValueRange
    \/ GetNullOffset

ExtractorSpec == ExtractorInit /\ [][ExtractorNext]_vars

(***************************************************************************)
(* Table files with irregularities the reading code provides for: it skips *)
(* an empty duration cell wherever it lies and a row whose temperature     *)
(* cell is empty.  The extractor's methods and the calculator are applied  *)
(* to each such file.                                                      *)
(***************************************************************************)
\* An empty cell between two durations, in both temperature rows.
TableGap ==
    << <<Text,     Num(10), Num(20), Num(40), Num(80)>>,
       <<Text,     Num(8),  Num(16), Num(32), Num(64)>>,
       <<Num(40),  Num(16), Blank,   Num(8),  Num(4)>>,
       <<Num(200), Num(8),  Num(4),  Blank,   Num(2)>> >>

\* A row without a temperature between two temperature rows.
TableNoTemperature ==
    << <<Text,     Num(10), Num(20), Num(40), Num(80)>>,
       <<Text,     Num(8),  Num(16), Num(32), Num(64)>>,
       <<Num(40),  Num(16), Num(8),  Num(4),  Num(2)>>,
       <<Blank,    Num(12), Num(6),  Num(3),  Num(1)>>,
       <<Num(200), Num(8),  Num(4),  Num(2),  Num(1)>> >>

\* A temperature row without any duration, and yeast rows with an empty and a
\* non-numeric cell under the second duration column.
TableNoDurations ==
    << <<Text,     Num(10), Blank,   Num(40), Num(80)>>,
       <<Text,     Num(8),  Text,    Num(32), Num(64)>>,
       <<Num(40),  Num(16), Num(8),  Num(4),  Num(2)>>,
       <<Num(200), Blank,   Blank,   Blank,   Blank>> >>

\* Each file with the row range its configuration names.
IrregularFiles ==
    {[csv_data |-> TableGap, configuration |-> YeastTableParameters],
     [csv_data |-> TableNoTemperature,
      configuration |-> [YeastTableParameters EXCEPT !.upper_range_temperature_row = 5]],
     [csv_data |-> TableNoDurations, configuration |-> YeastTableParameters]}

LoadIrregularTable ==
    /\ \E file \in IrregularFiles :
           /\ csv_data = file.csv_data
           /\ configuration = file.configuration
    /\ temperature_value_range = get_temperature_value_range
    /\ initialized = TRUE

IrregularExtractorInit ==
    /\ LoadIrregularTable
    /\ recipe = NoRecipe
    /\ last = NoTrace
    /\ probe \in ExtractorCalls
    /\ dpg = NoItems

IrregularExtractorSpec == IrregularExtractorInit /\ [][ExtractorNext]_vars

IrregularCalculatorInit ==
    /\ LoadIrregularTable
    /\ recipe = NoRecipe
    /\ last = NoTrace
    /\ \E self \in ProbeRecipes : probe = [called |-> "none", self |-> self]
    /\ dpg = NoItems

IrregularCalculatorSpec == IrregularCalculatorInit /\ [][CalculatorNext]_vars

(***************************************************************************)
(* The form: CallbackHandler and ProofingHandler on the proofing inputs.   *)
(* dpg holds what DearPyGui holds for the four proofing items (value, the  *)
(* choices of a fermentation combo, visibility) and the proofing mode.     *)
(* A handler that raises stops where it raised; what it did stays done.    *)
(***************************************************************************)
ProofingType == {"room", "fridge"}
ProofingMode == {"Both", "Room proof only", "Cold proof only"}

\* proofing_type.value["temperature"], proofing_type.value["fermentation"]
TemperatureTag(proofing_type) ==
    IF proofing_type = "room" THEN "room_temperature" ELSE "fridge_temperature"
FermentationTag(proofing_type) ==
    IF proofing_type = "room" THEN "room_fermentation" ELSE "fridge_fermentation"

RECURSIVE Sorted(_)
\* sorted(set): the elements in rising order
Sorted(S) ==
    IF S = {} THEN <<>>
    ELSE With(CHOOSE least \in S : \A x \in S : least <= x,
              LAMBDA least : <<least>> \o Sorted(S \ {least}))

get_duration_range_by_temperature(temperature) ==
    Then(get_temperature_row_index(temperature, FALSE),
         LAMBDA temperature_row_index : get_duration_value_range(temperature_row_index))

\* [int(duration) for duration in sorted(set(durations))]
get_sorted_durations_by_temperature(temperature) ==
    Then(get_duration_range_by_temperature(temperature),
         LAMBDA durations :
             With(Sorted({durations[k] : k \in 1..Len(durations)}),
                  LAMBDA sorted : Ok([k \in 1..Len(sorted) |-> PyInt(sorted[k])])))

\* A handler under way: the recipe and the items as they are by now, the
\* exception that stopped it ("none" while it runs) and the property
\* assignments it has made, each with the two durations the recipe held when
\* the assignment recalculated.
Begin(self, items) == [recipe |-> self, dpg |-> items, raised |-> "none", calls |-> <<>>]

Fail(ui, error) == [ui EXCEPT !.raised = error]

\* setattr(self._recipe, attr, value) on one of the five yeast inputs
setattr(ui, attr, value) ==
    IF ui.raised # "none" THEN ui
    ELSE With(setter(ui.recipe, attr, value, "recalculate_yeast_percentage"),
              LAMBDA call :
                  [recipe |-> call.recipe, dpg |-> ui.dpg, raised |-> call.raised,
                   calls |-> Append(ui.calls,
                                    [attr |-> attr, raised |-> call.raised,
                                     recalculated |-> call.recalculated,
                                     room_fermentation |-> call.recipe.room_fermentation,
                                     fridge_fermentation |-> call.recipe.fridge_fermentation])])

\* ProofingHandler.toggle_proof_item
toggle_proof_item(ui, proofing_type, show) ==
    IF ui.raised # "none" THEN ui
    ELSE [ui EXCEPT !.dpg.show[proofing_type] = show]

\* ProofingHandler.store_proofing_values: the fermentation is written to the
\* private field, the temperature is assigned through its property.
store_proofing_values(ui, proofing_type, reset) ==
    IF ui.raised # "none" THEN ui
    ELSE LET temperature_tag == TemperatureTag(proofing_type)
             fermentation_tag == FermentationTag(proofing_type)
             temperature == IF reset THEN 0 ELSE ui.dpg.value[temperature_tag]
             fermentation == IF reset THEN 0 ELSE ui.dpg.value[fermentation_tag]
         IN setattr([ui EXCEPT !.recipe[fermentation_tag] = fermentation],
                    temperature_tag, temperature)

_update_proofing_mode(ui, first_type, second_type, show_first, show_second) ==
    store_proofing_values(
        store_proofing_values(
            toggle_proof_item(toggle_proof_item(ui, first_type, show_first),
                              second_type, show_second),
            first_type, ~show_first),
        second_type, ~show_second)

proofing_mode_callback(ui, proofing_mode) ==
    IF proofing_mode = "Both"
    THEN _update_proofing_mode(ui, "room", "fridge", TRUE, TRUE)
    ELSE IF proofing_mode = "Room proof only"
    THEN _update_proofing_mode(ui, "room", "fridge", TRUE, FALSE)
    ELSE _update_proofing_mode(ui, "fridge", "room", TRUE, FALSE)

\* An adjustment that takes the longest duration of the row.
_apply_proofing_adjustments_longest(ui, proofing_type, temperature, fermentation) ==
    LET temperature_tag == TemperatureTag(proofing_type)
        fermentation_tag == FermentationTag(proofing_type)
    IN With(PyMinByDistance(temperature_value_range, temperature),
            LAMBDA selected_temperature :
    IF selected_temperature.raised # "none" THEN Fail(ui, selected_temperature.raised)
    ELSE With(get_sorted_durations_by_temperature(selected_temperature.value),
              LAMBDA durations :
    IF durations.raised # "none" THEN Fail(ui, durations.raised)
    ELSE IF Len(durations.value) = 0 THEN Fail(ui, "ValueError")
    ELSE With(Ok(durations.value[Len(durations.value)]),
              LAMBDA default_value :
             With(setattr(setattr(ui, temperature_tag, selected_temperature.value),
                          fermentation_tag, default_value.value),
                  LAMBDA done :
                      IF done.raised # "none" THEN done
                      ELSE [done EXCEPT !.dpg.items[fermentation_tag] = durations.value,
                                        !.dpg.value[fermentation_tag] = default_value.value]))))

\* CallbackHandler._apply_proofing_adjustments
_apply_proofing_adjustments(ui, proofing_type, temperature, fermentation) ==
    LET temperature_tag == TemperatureTag(proofing_type)
        fermentation_tag == FermentationTag(proofing_type)
    IN With(PyMinByDistance(temperature_value_range, temperature),
            LAMBDA selected_temperature :
    IF selected_temperature.raised # "none" THEN Fail(ui, selected_temperature.raised)
    ELSE With(get_sorted_durations_by_temperature(selected_temperature.value),
              LAMBDA durations :
    IF durations.raised # "none" THEN Fail(ui, durations.raised)
    ELSE With(Then(PyMinByDistance(durations.value, fermentation),
                   LAMBDA closest : Ok(PyInt(closest))),
              LAMBDA default_value :
    IF default_value.raised # "none" THEN Fail(ui, default_value.raised)
    ELSE With(setattr(setattr(ui, temperature_tag, selected_temperature.value),
                      fermentation_tag, default_value.value),
              LAMBDA done :
                  IF done.raised # "none" THEN done
                  ELSE [done EXCEPT !.dpg.items[fermentation_tag] = durations.value,
                                    !.dpg.value[fermentation_tag] = default_value.value]))))

\* CallbackHandler.temperature_update; int() cuts a duration to whole hours.
temperature_update(ui, app_data, proofing_type) ==
    LET temperature == app_data
        fermentation == PyInt(ui.dpg.value[FermentationTag(proofing_type)])
    IN _apply_proofing_adjustments(ui, proofing_type, temperature, fermentation)

\* CallbackHandler.fermentation_update
fermentation_update(ui, app_data, proofing_type) ==
    setattr(ui, FermentationTag(proofing_type), app_data)

\* ProofingHandler.update_proofing_mode_from_recipe
update_proofing_mode_from_recipe(self, items) ==
    LET mode == IF self.room_fermentation > 0 /\ self.fridge_fermentation > 0 THEN "Both"
                ELSE IF self.room_fermentation > 0 THEN "Room proof only"
                ELSE IF self.fridge_fermentation > 0 THEN "Cold proof only"
                ELSE "Both"
    IN [items EXCEPT !.show = [room |-> mode # "Cold proof only",
                               fridge |-> mode # "Room proof only"],
                     !.proofing_mode = mode]

\* The items as the form creates them for a recipe: each input shows the
\* recipe's value, a fermentation combo offers the durations of its leg's
\* temperature.
Widgets(self) ==
    update_proofing_mode_from_recipe(self,
        [value |-> [tag \in {"room_temperature", "room_fermentation",
                             "fridge_temperature", "fridge_fermentation"} |-> self[tag]],
         items |-> [tag \in {"room_fermentation", "fridge_fermentation"} |->
                       get_sorted_durations_by_temperature(
                           IF tag = "room_fermentation" THEN self.room_temperature
                           ELSE self.fridge_temperature).value],
         show |-> [proofing_type \in ProofingType |-> TRUE],
         proofing_mode |-> "Both"])

\* The temperatures the user enters for a leg: one of the table (20.0 C for the
\* room, 4.0 C for the fridge) and one between the table's (13.0 C).
UiTemperatures(proofing_type) == IF proofing_type = "room" THEN {130, 200} ELSE {40, 130}

\* The recipes the form starts from: whole hours, as a recipe file holds them.
UiRecipes ==
    [salt_percentage : {25}, oil_percentage : {20}, hydration : {650},
     ball_weight : {250}, number_of_balls : {1},
     yeast_type : {"ADY"},
     room_temperature : {0, 200}, fridge_temperature : {0, 40},
     room_fermentation : {0, 2}, fridge_fermentation : {0, 12}]

\* The record of the latest handler: its name and arguments, the exception it
\* ended with, how many of its assignments recalculated the yeast percentage
\* and whether one of them did so on a recipe with both durations set.
Handled(called, proofing_type, app_data, ui) ==
    LET recalculated == {k \in 1..Len(ui.calls) : ui.calls[k].recalculated = "yeast"}
    IN [called |-> called, proofing_type |-> proofing_type, app_data |-> app_data,
        raised |-> ui.raised,
        recalculations |-> Cardinality(recalculated),
        combined |-> \E k \in recalculated : /\ ui.calls[k].room_fermentation # 0
                                              /\ ui.calls[k].fridge_fermentation # 0]

UiInit ==
    /\ LoadTable
    /\ \E base_recipe \in UiRecipes :
           \E made \in {__init__(base_recipe)} :
              /\ made.raised = "none"
              /\ recipe = made.recipe
              /\ dpg = Widgets(made.recipe)
    /\ last = [called |-> "none"]
    /\ probe = NoProbe

\* A handler has run: the recipe and the items are as it left them.
Handle(called, proofing_type, app_data, ui) ==
    /\ recipe' = ui.recipe
    /\ dpg' = ui.dpg
    /\ last' = Handled(called, proofing_type, app_data, ui)
    /\ IF \E k \in 1..Len(ui.calls) : ui.calls[k].recalculated = "yeast"
       THEN DataExtractor
       ELSE UNCHANGED <<csv_data, configuration, temperature_value_range, initialized>>
    /\ UNCHANGED probe

\* The user picks a temperature for a leg that is shown.
TemperatureUpdate ==
    \E proofing_type \in ProofingType : \E app_data \in UiTemperatures(proofing_type) :
        /\ dpg.show[proofing_type]
        /\ \E ui \in {temperature_update(
                          Begin(recipe,
                                [dpg EXCEPT !.value[TemperatureTag(proofing_type)] = app_data]),
                          app_data, proofing_type)} :
               Handle("temperature_update", proofing_type, app_data, ui)

\* The user picks one of the durations the combo of a shown leg offers.
FermentationUpdate ==
    \E proofing_type \in ProofingType :
        \E k \in 1..Len(dpg.items[FermentationTag(proofing_type)]) :
            LET app_data == dpg.items[FermentationTag(proofing_type)][k]
            IN /\ dpg.show[proofing_type]
               /\ \E ui \in {fermentation_update(
                                 Begin(recipe,
                                       [dpg EXCEPT !.value[FermentationTag(proofing_type)]
                                                       = app_data]),
                                 app_data, proofing_type)} :
                      Handle("fermentation_update", proofing_type, app_data, ui)

\* The user picks a proofing mode.
ProofingModeCallback ==
    \E proofing_mode \in ProofingMode :
        \E ui \in {proofing_mode_callback(
                       Begin(recipe, [dpg EXCEPT !.proofing_mode = proofing_mode]),
                       proofing_mode)} :
            Handle("proofing_mode_callback", "none", proofing_mode, ui)

UiNext ==
    \/ TemperatureUpdate
    \/ FermentationUpdate
    \/ ProofingModeCallback

UiSpec == UiInit /\ [][UiNext]_vars

(***************************************************************************)
(* Properties                                                              *)
(***************************************************************************)
InputNames ==
    {"salt_percentage", "oil_percentage", "hydration", "ball_weight", "number_of_balls",
     "yeast_type", "room_temperature", "fridge_temperature", "room_fermentation",
     "fridge_fermentation"}

FlourInputs ==
    {"salt_percentage", "oil_percentage", "hydration", "ball_weight", "number_of_balls"}

ValuesOf(attr) ==
    CASE attr = "salt_percentage" -> SaltValues
      [] attr = "oil_percentage" -> OilValues
      [] attr = "hydration" -> HydrationValues
      [] attr = "ball_weight" -> BallWeightValues
      [] attr = "number_of_balls" -> BallCountValues
      [] attr = "yeast_type" -> YeastTypeValues
      [] attr = "room_temperature" -> RoomTemperatureValues
      [] attr = "fridge_temperature" -> FridgeTemperatureValues
      [] OTHER -> FermentationValues

RecalculationOf(attr) ==
    IF attr \in FlourInputs THEN "recalculate_flour_weight" ELSE "recalculate_yeast_percentage"

\* The readable derived values are the ones the current inputs give.
DerivedConsistent ==
    /\ calculate_flour_weight(recipe) = Ok(recipe.flour_weight)
    /\ calculate_yeast_percentage(recipe).raised = "none"
    /\ calculate_yeast_percentage(recipe).value = recipe.yeast_percentage

\* C1: after any sequence of setter calls, returning or raising, flour_weight
\* and yeast_percentage are the values computed from the current inputs.
C1_DerivedAlwaysConsistent == DerivedConsistent

\* C2: a setter called with the field's current value runs no recalculation,
\* raises nothing and leaves every input and both derived values as they were.
C2_SameValueIsNoOp ==
    [][\A attr \in InputNames : \A value \in ValuesOf(attr) :
          (value = recipe[attr] /\ Assign(attr, value, RecalculationOf(attr)))
              => /\ recipe' = recipe
                 /\ last'.recalculated = "none"
                 /\ last'.raised = "none"]_vars

\* A same-value call on a recipe whose inputs no longer give a yeast percentage:
\* a recalculation would have raised.
C2_Witness ==
    /\ last.recalculated = "none"
    /\ calculate_yeast_percentage(recipe).raised # "none"

\* C3: when the recalculation a yeast-affecting setter triggers fails, the call
\* raises and yeast_percentage keeps the value it had before the call.
C3_FailedRecomputeKeepsYeast ==
    [][(last'.recalculated = "yeast" /\ last'.raised # "none")
          => recipe'.yeast_percentage = recipe.yeast_percentage]_vars

C3_Witness ==
    /\ last.recalculated = "yeast"
    /\ last.raised = "InvalidFermentation"

Calculated == probe.called = "calculate_yeast_percentage"

ValidationErrors ==
    {"MismatchFermentation(Room)", "MismatchFermentation(Fridge)", "MissingTemperatures"}

\* C4: a yeast recompute validates first: MismatchFermentation("Room") for a
\* room duration without a room temperature, else MismatchFermentation("Fridge")
\* for a fridge duration without a fridge temperature, else MissingTemperatures
\* when both temperatures are zero, each before any lookup; otherwise validation
\* passes and the lookup starts.
C4_ValidationFirst ==
    Calculated =>
        LET self == probe.self
            result == probe.result
        IN IF self.room_fermentation # 0 /\ self.room_temperature = 0
           THEN result.raised = "MismatchFermentation(Room)" /\ result.lookups = <<>>
           ELSE IF self.fridge_fermentation # 0 /\ self.fridge_temperature = 0
           THEN result.raised = "MismatchFermentation(Fridge)" /\ result.lookups = <<>>
           ELSE IF self.room_temperature = 0 /\ self.fridge_temperature = 0
           THEN result.raised = "MissingTemperatures" /\ result.lookups = <<>>
           ELSE result.raised \notin ValidationErrors /\ Len(result.lookups) >= 1

\* Both legs lack a temperature and have a duration: the room leg is reported.
C4_Witness ==
    /\ Calculated
    /\ probe.self.room_temperature = 0 /\ probe.self.room_fermentation # 0
    /\ probe.self.fridge_temperature = 0 /\ probe.self.fridge_fermentation # 0
    /\ probe.result.raised = "MismatchFermentation(Room)"

\* C5 as claimed: MissingTemperatures whenever both temperatures are zero and
\* a duration is not, and whenever both durations are zero.
C5_MissingTemperaturesAsClaimed ==
    Calculated =>
        LET self == probe.self
        IN (\/ /\ self.room_temperature = 0 /\ self.fridge_temperature = 0
               /\ (self.room_fermentation # 0 \/ self.fridge_fermentation # 0)
            \/ self.room_fermentation = 0 /\ self.fridge_fermentation = 0)
           => probe.result.raised = "MissingTemperatures"

\* C5 amended: MissingTemperatures exactly when both temperatures and both
\* durations are zero; with both temperatures zero and a duration set the
\* failure is the MismatchFermentation of the first leg that has a duration.
C5_MissingTemperaturesExactly ==
    Calculated =>
        LET self == probe.self
            unset == self.room_temperature = 0 /\ self.fridge_temperature = 0
        IN /\ probe.result.raised = "MissingTemperatures"
                <=> (unset /\ self.room_fermentation = 0 /\ self.fridge_fermentation = 0)
           /\ unset /\ self.room_fermentation # 0
                => probe.result.raised = "MismatchFermentation(Room)"
           /\ unset /\ self.room_fermentation = 0 /\ self.fridge_fermentation # 0
                => probe.result.raised = "MismatchFermentation(Fridge)"

C5_Witness ==
    /\ Calculated
    /\ probe.result.raised = "MissingTemperatures"

Outcome(result) == <<result.raised, result.value, result.column>>

\* C6: once validation has passed the column comes from exactly one branch:
\* the fridge leg alone when room_fermentation is zero, else the room leg
\* alone when fridge_fermentation is zero, else the combined duration; in a
\* single-leg branch the other leg's temperature does not change the outcome.
C6_Dispatch ==
    (Calculated /\ probe.result.raised \notin ValidationErrors) =>
        LET self == probe.self
            result == probe.result
            combined == _get_combined_duration(self)
            expected ==
                IF self.room_fermentation = 0
                THEN get_closest_duration_column(self.fridge_fermentation, self.fridge_temperature)
                ELSE IF self.fridge_fermentation = 0
                THEN get_closest_duration_column(self.room_fermentation, self.room_temperature)
                ELSE [raised |-> combined.raised, value |-> combined.value]
        IN /\ expected.raised # "none" => result.raised = expected.raised
           /\ expected.raised = "none" =>
                  /\ result.column = expected.value
                  /\ get_yeast_percentage(self.yeast_type, expected.value)
                         = [raised |-> result.raised, value |-> result.value]
           /\ self.room_fermentation = 0 =>
                  \A t \in ProbeTemperatures :
                      LET other == [self EXCEPT !.room_temperature = t]
                      IN _validate_fermentation_conditions(other) = "none"
                             => Outcome(calculate_yeast_percentage(other)) = Outcome(result)
           /\ (self.room_fermentation # 0 /\ self.fridge_fermentation = 0) =>
                  \A t \in ProbeTemperatures :
                      LET other == [self EXCEPT !.fridge_temperature = t]
                      IN _validate_fermentation_conditions(other) = "none"
                             => Outcome(calculate_yeast_percentage(other)) = Outcome(result)

\* Both durations zero and both temperatures set to different rows: the first
\* branch decides, and it reads the fridge row.
C6_Witness ==
    /\ Calculated
    /\ probe.result.raised = "none"
    /\ probe.self.room_fermentation = 0 /\ probe.self.fridge_fermentation = 0
    /\ probe.self.room_temperature = 200 /\ probe.self.fridge_temperature = 40
    /\ probe.result.lookups = <<40>>

\* 1-based place of a yeast type in the configured list.
PlaceOf(name) == CHOOSE k \in 1..Len(configuration.yeast_types) : configuration.yeast_types[k] = name

\* C7: the percentage returned is the number in the cell at (row of the yeast
\* type, duration column), the row being the yeast type's position in the
\* configured list.
C7_PercentageIsYeastRowCell ==
    (Calculated /\ probe.result.raised = "none") =>
        /\ \E k \in 1..Len(configuration.yeast_types) :
               configuration.yeast_types[k] = probe.self.yeast_type
        /\ csv_data[PlaceOf(probe.self.yeast_type)][probe.result.column + 1]
               = Num(probe.result.value)

C7_Witness ==
    /\ Calculated
    /\ probe.result.raised = "none"
    /\ probe.self.yeast_type = "IDY"
    /\ probe.result.column > 1

Probed == probe.called = "get_closest_duration_column"

\* The columns of a row that hold a duration: non-empty, inside the range.
DurationColumns(row) ==
    {c \in configuration.first_duration_column..(configuration.last_duration_column - 1) :
        c < Len(csv_data[row + 1]) /\ NonBlank(csv_data[row + 1][c + 1])}

\* 0-based position of a duration column in the list collected for its row.
PositionOf(c, row) == Cardinality({x \in DurationColumns(row) : x < c})

DistanceAt(c, row, duration) == Abs(csv_data[row + 1][c + 1].val - duration)

ClosestColumns(row, duration) ==
    {c \in DurationColumns(row) :
        \A x \in DurationColumns(row) : DistanceAt(c, row, duration) <= DistanceAt(x, row, duration)}

FirstFilledColumn(row) ==
    CHOOSE c \in DurationColumns(row) : \A x \in DurationColumns(row) : c <= x

LastOf(columns) == CHOOSE c \in columns : \A x \in columns : x <= c

ProbedRow == get_temperature_row_index(probe.temperature, FALSE).value

\* C8: the column returned for (D, T) is the position, in the list of the
\* non-empty durations of T's nearest row, of a duration closest to D, plus the
\* row's first non-empty column; so it is never left of that column.
C8_PositionPlusOffset ==
    Probed =>
        /\ probe.result.raised = "none"
        /\ \E c \in ClosestColumns(ProbedRow, probe.duration) :
               probe.result.value = PositionOf(c, ProbedRow) + FirstFilledColumn(ProbedRow)
        /\ probe.result.value >= FirstFilledColumn(ProbedRow)

\* A row that starts late, and a duration that is not its first.
C8_Witness ==
    /\ Probed
    /\ FirstFilledColumn(ProbedRow) > configuration.first_duration_column
    /\ probe.result.value > FirstFilledColumn(ProbedRow)

Tied == Probed /\ Cardinality(ClosestColumns(ProbedRow, probe.duration)) >= 2

\* C9 as claimed: of the durations tied at the least difference the last in
\* column order is selected, and it is the larger one.
C9_LastAndLargerWins ==
    Tied =>
        LET columns == ClosestColumns(ProbedRow, probe.duration)
        IN /\ probe.result.value
                  = PositionOf(LastOf(columns), ProbedRow) + FirstFilledColumn(ProbedRow)
           /\ \A x \in columns :
                  csv_data[ProbedRow + 1][x + 1].val
                      <= csv_data[ProbedRow + 1][LastOf(columns) + 1].val

\* C9 amended: of the durations tied at the least difference the last in
\* column order is selected, whether it is the larger or the smaller.
C9_LastTiedWins ==
    Tied =>
        probe.result.value
            = PositionOf(LastOf(ClosestColumns(ProbedRow, probe.duration)), ProbedRow)
                  + FirstFilledColumn(ProbedRow)

\* A tie in a row whose durations fall along the columns: the later is smaller.
C9_Witness ==
    /\ Tied
    /\ \E x \in ClosestColumns(ProbedRow, probe.duration) :
           csv_data[ProbedRow + 1][x + 1].val
               > csv_data[ProbedRow + 1][LastOf(ClosestColumns(ProbedRow, probe.duration)) + 1].val

BothLegs ==
    /\ Calculated
    /\ probe.self.room_fermentation # 0 /\ probe.self.fridge_fermentation # 0
    /\ probe.result.raised \notin ValidationErrors

\* C10: with both durations non-zero the column is closestDurationColumn(E +
\* fridge_fermentation, fridge_temperature), E being the number in the cell at
\* (nearest row of fridge_temperature, column closest to room_fermentation at
\* room_temperature).
C10_CombinedColumn ==
    BothLegs =>
        LET self == probe.self
            room_column ==
                get_closest_duration_column(self.room_fermentation, self.room_temperature)
            fridge_row == get_temperature_row_index(self.fridge_temperature, FALSE)
        IN (/\ room_column.raised = "none"
            /\ fridge_row.raised = "none"
            /\ room_column.value < Len(csv_data[fridge_row.value + 1])
            /\ csv_data[fridge_row.value + 1][room_column.value + 1].kind = "num")
           => LET E == csv_data[fridge_row.value + 1][room_column.value + 1].val
                  expected == get_closest_duration_column(
                                  E + self.fridge_fermentation, self.fridge_temperature)
              IN /\ expected.raised = "none"
                 /\ probe.result.column = expected.value
                 /\ probe.result.lookups
                        = <<self.room_temperature, self.fridge_temperature,
                            self.fridge_temperature>>

\* The combined column differs from the room leg's own column and from the
\* column the fridge duration alone would give.
C10_Witness ==
    /\ BothLegs
    /\ probe.result.raised = "none"
    /\ probe.result.column
           # get_closest_duration_column(
                 probe.self.room_fermentation, probe.self.room_temperature).value
    /\ probe.result.column
           # get_closest_duration_column(
                 probe.self.fridge_fermentation, probe.self.fridge_temperature).value

\* The cell the combined computation reads: (nearest row of the fridge
\* temperature, column of the room leg).
CombinedCell ==
    LET room_column == get_closest_duration_column(
                           probe.self.room_fermentation, probe.self.room_temperature)
        fridge_row == get_temperature_row_index(probe.self.fridge_temperature, FALSE)
    IN IF room_column.raised = "none" /\ fridge_row.raised = "none"
       THEN get_cell_value(fridge_row.value, room_column.value)
       ELSE Raise("NoCell")

\* C11: in the combined computation, when the cell at (fridge-temperature row,
\* room-leg column) holds no number, the recompute fails with
\* InvalidFermentation and produces no yeast percentage.
C11_NoNumberIsInvalidFermentation ==
    (BothLegs /\ CombinedCell.raised = "none" /\ CombinedCell.value.kind # "num") =>
        /\ probe.result.raised = "InvalidFermentation"
        /\ probe.result.column = -1
        /\ probe.result.lookups
               = <<probe.self.room_temperature, probe.self.fridge_temperature>>

\* The room leg selects a column in which the cold row is empty.
C11_Witness ==
    /\ BothLegs
    /\ CombinedCell.raised = "none"
    /\ CombinedCell.value = Blank
    /\ probe.result.raised = "InvalidFermentation"

RowProbed == probe.called = "get_temperature_row_index"

\* The rows of the configured range that hold a temperature.
RangeRows ==
    {r \in configuration.lower_range_temperature_row
               ..(configuration.upper_range_temperature_row - 1) :
        /\ r < Len(csv_data)
        /\ configuration.temperature_column < Len(csv_data[r + 1])
        /\ NonBlank(csv_data[r + 1][configuration.temperature_column + 1])}

TemperatureAt(r) == csv_data[r + 1][configuration.temperature_column + 1].val

\* C12: in strict mode a temperature that matches a table temperature of the
\* configured range (temperatures are in tenths, so at one-decimal precision)
\* yields a row holding that temperature; TemperatureNotFound is raised only
\* when no row of the range matches.
C12_StrictFindsMatching ==
    (RowProbed /\ probe.strict) =>
        IF \E r \in RangeRows : TemperatureAt(r) = probe.temperature
        THEN /\ probe.result.raised = "none"
             /\ probe.result.value \in RangeRows
             /\ TemperatureAt(probe.result.value) = probe.temperature
        ELSE probe.result.raised = "TemperatureNotFound"

DistanceTo(r) == Abs(TemperatureAt(r) - probe.temperature)

\* Every row of the configured range holds a temperature.
TemperatureColumnFilled ==
    /\ RangeRows # {}
    /\ RangeRows = configuration.lower_range_temperature_row
                       ..(configuration.upper_range_temperature_row - 1)

\* C13: in nearest mode the lookup never fails on a non-empty temperature range
\* and returns the row of the table temperature at the least absolute difference
\* from T; of several equidistant temperatures the first in range order.
C13_NearestFirst ==
    (RowProbed /\ ~probe.strict /\ TemperatureColumnFilled) =>
        /\ probe.result.raised = "none"
        /\ probe.result.value \in RangeRows
        /\ \A x \in RangeRows :
               /\ DistanceTo(probe.result.value) <= DistanceTo(x)
               /\ x < probe.result.value => DistanceTo(probe.result.value) < DistanceTo(x)

\* A temperature halfway between two table temperatures: the earlier row wins.
C13_Witness ==
    /\ RowProbed /\ ~probe.strict
    /\ probe.result.raised = "none"
    /\ \E x \in RangeRows :
           /\ x > probe.result.value
           /\ DistanceTo(x) = DistanceTo(probe.result.value)

DurationsProbed == probe.called = "get_duration_value_range"

\* C19: durationsForRow returns the non-empty numeric cells of the row in the
\* configured duration columns (from first up to, not including, last), in
\* column order, and the empty sequence for a row beyond the loaded table.
C19_DurationsOfRow ==
    DurationsProbed =>
        IF probe.row_index >= Len(csv_data)
        THEN probe.result = Ok(<<>>)
        ELSE /\ probe.result.raised = "none"
             /\ Len(probe.result.value) = Cardinality(DurationColumns(probe.row_index))
             /\ \A c \in DurationColumns(probe.row_index) :
                    csv_data[probe.row_index + 1][c + 1]
                        = Num(probe.result.value[PositionOf(c, probe.row_index) + 1])

\* A row that holds a number in the column named last, which is left out.
C19_Witness ==
    /\ DurationsProbed
    /\ probe.row_index < Len(csv_data)
    /\ Len(csv_data[probe.row_index + 1]) > configuration.last_duration_column
    /\ csv_data[probe.row_index + 1][configuration.last_duration_column + 1].kind = "num"
    /\ Len(probe.result.value)
           = configuration.last_duration_column - configuration.first_duration_column

NullOffsetProbed == probe.called = "_get_null_offset"

\* C20: firstNonEmptyColumn returns the first non-empty column at or after
\* startCol up to the end of the row, 0 when there is none, and fails with
\* OutOfRange (IndexError, INDEX_OUT_OF_BOUNDS) for a row beyond the table.
C20_FirstNonEmptyColumn ==
    NullOffsetProbed =>
        IF probe.row_index >= Len(csv_data)
        THEN probe.result.raised = "IndexOutOfBounds"
        ELSE LET row == csv_data[probe.row_index + 1]
                 found == probe.result.value
             IN /\ probe.result.raised = "none"
                /\ \/ /\ found >= probe.start_col /\ found < Len(row)
                      /\ NonBlank(row[found + 1])
                      /\ \A c \in probe.start_col..(found - 1) : ~NonBlank(row[c + 1])
                   \/ /\ found = 0
                      /\ \A c \in probe.start_col..(Len(row) - 1) : ~NonBlank(row[c + 1])

\* A scan that starts inside the row, past its last filled cell: the sentinel.
C20_Witness ==
    /\ NullOffsetProbed
    /\ probe.row_index < Len(csv_data)
    /\ probe.start_col > 0
    /\ probe.start_col < Len(csv_data[probe.row_index + 1])
    /\ probe.result = Ok(0)

Configured(name) ==
    \E k \in 1..Len(configuration.yeast_types) : configuration.yeast_types[k] = name

\* C18: yeastTypeRow returns the position of a configured yeast type in the
\* configured list and fails with UnknownYeastType, listing the configured
\* names, for any other; so setting a recipe's yeast_type to an unconfigured
\* name raises UnknownYeastType from the setter.
C18_UnknownYeastType ==
    [][/\ \A name \in YeastTypeValues :
              IF Configured(name)
              THEN get_yeast_type_index(name) = Ok(PlaceOf(name) - 1)
              ELSE /\ get_yeast_type_index(name).raised = "UnknownYeastType"
                   /\ get_yeast_type_index(name).value = <<name, configuration.yeast_types>>
       /\ \A name \in YeastTypeValues :
              (~Configured(name) /\ Assign("yeast_type", name, "recalculate_yeast_percentage"))
                  => last'.raised = "UnknownYeastType"]_vars

\* C16: the table, its coordinates (temperature column, duration columns,
\* temperature rows, all held in configuration) and the cached temperatures
\* never change once the DataExtractor is initialized: no step changes them,
\* and a further DataExtractor() is the same initialized instance, not a reload.
C16_TableNeverChanges ==
    [][/\ csv_data' = csv_data
       /\ configuration' = configuration
       /\ temperature_value_range' = temperature_value_range
       /\ initialized /\ initialized']_vars

\* A setter has recomputed the yeast percentage, which constructs
\* DataExtractor() again, resolved both temperatures and read an empty cell.
C16_Witness ==
    /\ initialized
    /\ last.recalculated = "yeast"
    /\ last.raised = "InvalidFermentation"
    /\ Len(last.lookups) = 2
    /\ temperature_value_range = get_temperature_value_range

\* C15: flour_weight is (number_of_balls * ball_weight) / (1 + (hydration +
\* oil_percentage + salt_percentage) / 100) for the current inputs (the
\* percentages are in tenths, so the divisor is (1000 + sum) / 1000); for
\* hydration 65, oil 2, salt 2.5, 4 balls of 250 g it is 1000 / 1.695.
C15_FlourWeight ==
    LET total == 1000 + recipe.hydration + recipe.oil_percentage + recipe.salt_percentage
        dough == recipe.number_of_balls * recipe.ball_weight
        flour == recipe.flour_weight
    IN /\ flour[2] > 0
       /\ flour[1] * total = flour[2] * dough * 1000
       /\ (\A a \in DOMAIN ScenarioD : recipe[a] = ScenarioD[a])
              => /\ flour[1] * 1695 = flour[2] * 1000 * 1000
                 /\ 58997 * flour[2] <= 100 * flour[1]
                 /\ 100 * flour[1] < 58998 * flour[2]

\* The dough of scenario D, arrived at by a setter that recalculated the flour.
C15_Witness ==
    /\ \A a \in DOMAIN ScenarioD : recipe[a] = ScenarioD[a]
    /\ last.recalculated = "flour"
    /\ recipe.flour_weight = <<200000, 339>>

Loaded == probe.called = "to_recipe"

\* C14: a successfully constructed recipe written as a persistence record and
\* rebuilt from that record has the same flour weight and the same yeast
\* percentage, for every fermentation duration the setters accept.
C14_RoundTrip ==
    Loaded =>
        /\ probe.result.raised = "none"
        /\ probe.result.recipe.flour_weight = recipe.flour_weight
        /\ probe.result.recipe.yeast_percentage = recipe.yeast_percentage

Exported == probe.called = "save_recipe_as_txt"

Labels(text) == [k \in 1..Len(text) |-> text[k].label]

Has(text, label) == \E k \in 1..Len(text) : text[k].label = label

\* C17: the text of a recipe has the cold-proof line exactly when
\* fridge_fermentation and fridge_temperature are both non-zero and the
\* room-proof line exactly when room_fermentation and room_temperature are; the
\* five ingredient lines come first and the ball-count line last, always.
C17_ProofLines ==
    Exported =>
        LET text == probe.text
        IN /\ Has(text, "Cold Proof")
                <=> (recipe.fridge_fermentation # 0 /\ recipe.fridge_temperature # 0)
           /\ Has(text, "Room Proof")
                <=> (recipe.room_fermentation # 0 /\ recipe.room_temperature # 0)
           /\ Len(text) >= 6
           /\ SubSeq(Labels(text), 1, 5) = <<"Flour", "Water", "Salt", "Oil", "Yeast">>
           /\ text[Len(text)]
                = [label |-> "Total", number_of_balls |-> recipe.number_of_balls,
                   ball_weight |-> recipe.ball_weight]
           /\ \A k \in 6..(Len(text) - 1) : text[k].label \in {"Cold Proof", "Room Proof"}

\* A fridge duration without a fridge temperature (left by a setter that
\* raised): no cold-proof line, while the room-proof line is there.
C17_Witness ==
    /\ Exported
    /\ recipe.fridge_fermentation # 0 /\ recipe.fridge_temperature = 0
    /\ Labels(probe.text) = <<"Flour", "Water", "Salt", "Oil", "Yeast", "Room Proof", "Total">>

\* C23: a setter whose recalculation fails is atomic: the field it targeted
\* holds the value it had before the call, so the recipe (inputs and derived
\* values) is the one from before the failed call.
C23_FailedSetterIsAtomic ==
    [][(last'.recalculated # "none" /\ last'.raised # "none") => recipe' = recipe]_vars

\* C24: when the yeast percentage is recomputed without error, every table
\* lookup of that recompute resolved a non-zero temperature: a zero (unset)
\* temperature is never resolved to a table row.
C24_NoLookupOfUnsetTemperature ==
    (Calculated /\ probe.result.raised = "none") =>
        \A i \in 1..Len(probe.result.lookups) : probe.result.lookups[i] # 0

YeastInputs == InputNames \ FlourInputs

LookupErrors ==
    ValidationErrors \cup
        {"InvalidFermentation", "TemperatureNotFound", "UnknownYeastType", "IndexOutOfBounds"}

\* C26: a setter of an ingredient-affecting input leaves yeast_percentage and
\* every other input unchanged and raises no fermentation or lookup error; a
\* setter of a yeast-affecting input leaves flour_weight and every other input
\* unchanged.
C26_SetterFrame ==
    [][LET changed == {attr \in InputNames : recipe'[attr] # recipe[attr]}
       IN /\ Cardinality(changed) <= 1
          /\ last'.recalculated = "none" => recipe' = recipe
          /\ last'.recalculated = "flour" =>
                 /\ changed \subseteq FlourInputs
                 /\ recipe'.yeast_percentage = recipe.yeast_percentage
                 /\ last'.raised \notin LookupErrors
                 /\ last'.lookups = <<>>
          /\ last'.recalculated = "yeast" =>
                 /\ changed \subseteq YeastInputs
                 /\ recipe'.flour_weight = recipe.flour_weight]_vars

\* A dough setter recomputed the flour weight of a recipe whose fermentation
\* inputs would make a yeast recompute raise.
C26_Witness ==
    /\ last.recalculated = "flour"
    /\ last.raised = "none"
    /\ calculate_yeast_percentage(recipe).raised # "none"

\* The sum of two exact fractions, in lowest terms.
Plus(x, y) == Fraction(x[1] * y[2] + y[1] * x[2], x[2] * y[2])

C27_ColumnHoldsSelectedDuration ==
    (Probed /\ probe.result.raised = "none") =>
        LET row == csv_data[ProbedRow + 1]
            selected == row[LastOf(ClosestColumns(ProbedRow, probe.duration)) + 1]
        IN /\ probe.result.value < Len(row)
           /\ row[probe.result.value + 1] = selected

\* C28: for every table, also one with an empty temperature cell inside the
\* configured row range, the row returned in nearest mode holds, in the
\* temperature column, the temperature that was selected as nearest to the input.
C28_RowHoldsSelectedTemperature ==
    (RowProbed /\ ~probe.strict /\ probe.result.raised = "none") =>
        /\ probe.result.value \in RangeRows
        /\ Ok(TemperatureAt(probe.result.value))
               = PyMinByDistance(temperature_value_range, probe.temperature)

\* The six documented kinds.  OutOfRange is the IndexError of a row or column
\* beyond the table, raised with or without a message of its own.
DocumentedErrors ==
    {"TemperatureNotFound", "UnknownYeastType", "MismatchFermentation(Room)",
     "MismatchFermentation(Fridge)", "MissingTemperatures", "InvalidFermentation",
     "IndexOutOfBounds", "IndexError"}

\* C29: every failure of a yeast recompute is of a documented kind, also when
\* the resolved row has no duration in the configured range and when the yeast
\* cell at the resolved column is empty or not a number.
C29_OnlyDocumentedErrors ==
    Calculated => probe.result.raised \in {"none"} \cup DocumentedErrors

ModeChanged == last.called = "proofing_mode_callback"

\* C21: after any proofing-mode change made through the form's handlers the
\* recipe's yeast_percentage is the value the lookup yields for the recipe's
\* current inputs.
C21_ModeChangeKeepsYeastCurrent ==
    ModeChanged => calculate_yeast_percentage(recipe).raised = "none"
                   /\ calculate_yeast_percentage(recipe).value = recipe.yeast_percentage

TemperatureUpdated == last.called = "temperature_update" /\ last.raised = "none"

\* The durations of the row of a table temperature, within the duration columns.
DurationsAt(temperature) ==
    UNION {{csv_data[r + 1][c + 1].val : c \in DurationColumns(r)} :
               r \in {x \in RangeRows : TemperatureAt(x) = temperature}}

SingleLegModes == {"Room proof only", "Cold proof only"}

\* C25: a switch of the proofing mode from one single-leg mode directly to the
\* other never recalculates on a recipe in which both fermentation durations
\* are non-zero, so it never evaluates the combined two-leg lookup and cannot
\* fail with InvalidFermentation.
C25_SingleLegSwitchNeverCombines ==
    [][(/\ last'.called = "proofing_mode_callback"
        /\ dpg.proofing_mode \in SingleLegModes
        /\ dpg'.proofing_mode \in SingleLegModes \ {dpg.proofing_mode})
          => /\ ~last'.combined
             /\ last'.raised # "InvalidFermentation"]_vars

====
